---- MODULE Spec2Model ----
(***************************************************************************)
(* A model of the wedding media collector (src/server.js): the SQLite      *)
(* tables uploaders / photos / videos, the upload directory, the two       *)
(* upload routes, the admin session and the admin routes (fetch, delete,   *)
(* delete-all, download).                                                  *)
(*                                                                         *)
(* An upload request has two stages.  The multer middleware parses the     *)
(* multipart body and writes every file of the batch into the upload       *)
(* directory (asynchronous I/O: several requests can be in this stage at   *)
(* once).  Then the route handler runs.  The handler is one synchronous    *)
(* JavaScript function over the synchronous better-sqlite3 API, so it runs *)
(* to completion on the single event-loop thread: it is one atomic action. *)
(***************************************************************************)
EXTENDS Integers, Sequences, FiniteSets, TLC

(***************************************************************************)
(* Bounds of the model.                                                    *)
(***************************************************************************)
\* The photo limits of the source are 10 and 600; the model runs the same
\* code on scaled-down limits so that both ceilings are reached.
MAX_PHOTOS_PER_PERSON == 2
MAX_TOTAL_PHOTOS == 3
\* The video limits are read from the environment; these are the values the
\* test suite configures.
MAX_VIDEOS_PER_PERSON == 2
MAX_TOTAL_VIDEOS == 3
\* Files multer stores in one run of the model.  Every row of every table
\* comes from a stored file, so this also caps the AUTOINCREMENT sequences.
MaxFiles == 4

Kinds == {"photo", "video"}
\* Upload requests that can be between the multer stage and their handler.
Requests == {"r1", "r2"}
\* Display names a guest can type, as sequences of characters.
NameInputs == { <<" ">>, <<"a">>, <<"A", " ">>, <<"b">> }
None == [tag |-> "none"]
Idle == [type |-> "idle"]
\* Export requests that can be waiting for zip or streaming their archive.
ExportSlots == {"e1", "e2"}
\* Where one export runs at a time, it is this one.
OneExport == {"e1"}

VARIABLES
  uploaders,   \* table uploaders: set of [id, name, normalized_name]
  media,       \* tables photos and videos: [Kinds -> set of [id, uploader_id, filename]]
  nextId,      \* next AUTOINCREMENT rowid of each table
  disk,        \* the file names present in uploadDir
  inflight,    \* per request slot: None, or the request multer has parsed
  clock,       \* number of the next file name storageFilename generates
  lastOp,      \* the request that was just served, with its response; Idle
               \* once the response has gone out
  session,     \* the browser's session in the session store: None, or
               \* [isAdmin |-> TRUE] after a successful login
  tmp,         \* os.tmpdir(): the scratch directories and archive files
  exports,     \* per export slot: None, or the export that is in progress
  env          \* process.env: the settings of the video limits

vars == <<uploaders, media, nextId, disk, inflight, clock, lastOp,
          session, tmp, exports, env>>

\* The variables the upload routes never touch.
adminVars == <<session, tmp, exports, env>>
\* The tables and the upload directory.
storeVars == <<uploaders, media, nextId, disk>>

(***************************************************************************)
(* Pure helpers.                                                           *)
(***************************************************************************)
Max(a, b) == IF a >= b THEN a ELSE b
Min(a, b) == IF a <= b THEN a ELSE b
Range(s) == { s[i] : i \in DOMAIN s }

\* Array.prototype.slice(from, to) with 0-based from and exclusive to.
slice(s, from, to) == SubSeq(s, from + 1, Min(to, Len(s)))

\* String.prototype.toLowerCase, per character.
toLowerCaseChar(c) ==
  CASE c = "A" -> "a"
    [] c = "B" -> "b"
    [] OTHER -> c

toLowerCase(s) == [i \in DOMAIN s |-> toLowerCaseChar(s[i])]

RECURSIVE trimStart(_)
trimStart(s) ==
  IF s # <<>> /\ Head(s) = " " THEN trimStart(Tail(s)) ELSE s

RECURSIVE trimEnd(_)
trimEnd(s) ==
  IF s # <<>> /\ s[Len(s)] = " " THEN trimEnd(SubSeq(s, 1, Len(s) - 1)) ELSE s

\* (mutant) the string as it is.
trimNothing(s) == s

\* String.prototype.trim.
trim(s) == trimEnd(trimStart(s))

\* (mutant) trimmed, but not lower-cased.
normalizeNameTrimOnly(name) == trim(name)

normalizeName(name) == toLowerCase(trim(name))

PerPersonLimit(kind) ==
  IF kind = "photo" THEN MAX_PHOTOS_PER_PERSON ELSE MAX_VIDEOS_PER_PERSON

GlobalLimit(kind) ==
  IF kind = "photo" THEN MAX_TOTAL_PHOTOS ELSE MAX_TOTAL_VIDEOS

NumStr(n) ==
  CASE n = 0 -> "0" [] n = 1 -> "1" [] n = 2 -> "2" [] n = 3 -> "3"
    [] n = 4 -> "4" [] n = 5 -> "5" [] n = 6 -> "6" [] n = 7 -> "7"
    [] n = 8 -> "8" [] n = 9 -> "9" [] OTHER -> "10"

Noun(kind) == IF kind = "photo" THEN "photo" ELSE "video"

(***************************************************************************)
(* The store (better-sqlite3) and the file system.                         *)
(***************************************************************************)
\* SELECT ... WHERE normalized_name = ?, else INSERT INTO uploaders.
\* Returns the uploader and the table and sequence after the call.
getOrCreateUploader(rows, next, name) ==
  LET normalized == normalizeName(name)
      found == { u \in rows : u.normalized_name = normalized }
  IN  IF found # {}
      THEN [uploader |-> CHOOSE u \in found : TRUE, rows |-> rows, next |-> next]
      ELSE LET created == [id |-> next, name |-> trim(name),
                           normalized_name |-> normalized]
           IN  [uploader |-> created, rows |-> rows \cup {created},
                next |-> next + 1]

\* SELECT COUNT(*) FROM photos|videos WHERE uploader_id = ?
getUploaderCount(rows, uploaderId) ==
  Cardinality({ m \in rows : m.uploader_id = uploaderId })

\* (mutant) a total that misses the newest row.
getTotalCountStale(rows) == Max(0, Cardinality(rows) - 1)

\* SELECT COUNT(*) FROM photos|videos
getTotalCount(rows) == Cardinality(rows)

\* (mutant) no file is unlinked.
safeUnlinkAllNothing(files, onDisk) == onDisk

\* fs.unlinkSync inside try/catch, for every file of a list.  The unlink of
\* a file that the process itself has stored is taken to succeed; a failure
\* would be swallowed by the catch and leave the file where it is.
safeUnlinkAll(files, onDisk) == onDisk \ { f.filename : f \in Range(files) }

\* One INSERT INTO photos|videos: the table and sequence after it.
insertRun(tbl, uploaderId, file) ==
  [rows |-> tbl.rows \cup {[id |-> tbl.next, uploader_id |-> uploaderId,
                            filename |-> file.filename,
                            original_name |-> file.originalname]},
   next |-> tbl.next + 1]

\* The loop of the transaction body; the INSERT of file number failAt throws.
RECURSIVE insertLoop(_, _, _, _, _)
insertLoop(tbl, uploaderId, files, i, failAt) ==
  IF i > Len(files) THEN [rows |-> tbl.rows, next |-> tbl.next, threw |-> FALSE]
  ELSE IF i = failAt THEN [rows |-> tbl.rows, next |-> tbl.next, threw |-> TRUE]
  ELSE insertLoop(insertRun(tbl, uploaderId, files[i]), uploaderId, files,
                  i + 1, failAt)

\* (mutant) the rows inserted before the throw are kept.
transactionNoRollback(tbl, uploaderId, files, failAt) ==
  insertLoop(tbl, uploaderId, files, 1, failAt)

\* db.transaction(fn)(files): commits, or rolls back when fn throws.
transaction(tbl, uploaderId, files, failAt) ==
  LET done == insertLoop(tbl, uploaderId, files, 1, failAt)
  IN  IF done.threw
      THEN [rows |-> tbl.rows, next |-> tbl.next, threw |-> TRUE]
      ELSE done

\* (mutant) only the photos keep an uploader, as before videos existed.
cleanupOrphanUploadersPhotosOnly(rows, tables) ==
  { u \in rows : \E m \in tables["photo"] : m.uploader_id = u.id }

\* (mutant) only the videos keep an uploader.
cleanupOrphanUploadersVideosOnly(rows, tables) ==
  { u \in rows : \E m \in tables["video"] : m.uploader_id = u.id }

\* (mutant) no uploader is deleted.
cleanupOrphanUploadersNothing(rows, tables) == rows

\* DELETE FROM uploaders WHERE id NOT IN (SELECT uploader_id FROM photos
\* UNION SELECT uploader_id FROM videos)
cleanupOrphanUploaders(rows, tables) ==
  { u \in rows :
      \E k \in Kinds : \E m \in tables[k] : m.uploader_id = u.id }

(***************************************************************************)
(* Admission and the texts of the upload responses.                        *)
(***************************************************************************)
\* (mutant) the remaining quota counted from one record too few.
remainingForOffByOne(limit, count) == Max(0, limit - count + 1)

remainingFor(limit, count) == Max(0, limit - count)

\* (mutant) Math.max where the code has Math.min.
allowedNowOfMax(kind, uploaderCount, totalCount) ==
  Max(remainingFor(PerPersonLimit(kind), uploaderCount),
      remainingFor(GlobalLimit(kind), totalCount))

allowedNowOf(kind, uploaderCount, totalCount) ==
  Min(remainingFor(PerPersonLimit(kind), uploaderCount),
      remainingFor(GlobalLimit(kind), totalCount))

\* (mutant) remainingGlobal < 0 where the code has <= 0.
fullReasonStrict(kind, remainingGlobal) ==
  IF kind = "photo"
  THEN IF remainingGlobal < 0
       THEN <<"Upload limit reached: this gallery is full.">>
       ELSE <<"You have already uploaded your maximum of ",
              NumStr(MAX_PHOTOS_PER_PERSON), " photos.">>
  ELSE IF remainingGlobal < 0
       THEN <<"Video upload limit reached: this gallery is full.">>
       ELSE <<"You have already uploaded your maximum of ",
              NumStr(MAX_VIDEOS_PER_PERSON), " videos.">>

\* The reason of a full rejection.  The photo route spells the number of
\* MAX_PHOTOS_PER_PERSON out in its text ("maximum of 10 photos"); the video
\* route interpolates MAX_VIDEOS_PER_PERSON.
fullReason(kind, remainingGlobal) ==
  IF kind = "photo"
  THEN IF remainingGlobal <= 0
       THEN <<"Upload limit reached: this gallery is full.">>
       ELSE <<"You have already uploaded your maximum of ",
              NumStr(MAX_PHOTOS_PER_PERSON), " photos.">>
  ELSE IF remainingGlobal <= 0
       THEN <<"Video upload limit reached: this gallery is full.">>
       ELSE <<"You have already uploaded your maximum of ",
              NumStr(MAX_VIDEOS_PER_PERSON), " videos.">>

\* (mutant) the skipped files are not mentioned.
successMessageUploadedOnly(kind, uploadedCount, limitedCount) ==
  <<"Uploaded ", NumStr(uploadedCount), " ", Noun(kind),
    IF uploadedCount = 1 THEN "" ELSE "s", ".">>

\* (mutant) the nouns are always plural.
successMessagePlural(kind, uploadedCount, limitedCount) ==
  <<"Uploaded ", NumStr(uploadedCount), " ", Noun(kind), "s", ".">>
  \o (IF limitedCount > 0
      THEN <<" ", NumStr(limitedCount), " ", Noun(kind), "s were",
             " skipped due to upload limits.">>
      ELSE <<>>)

\* message: `Thanks ${uploader.name}! Uploaded ...`, after the thanks.
successMessage(kind, uploadedCount, limitedCount) ==
  <<"Uploaded ", NumStr(uploadedCount), " ", Noun(kind),
    IF uploadedCount = 1 THEN "" ELSE "s", ".">>
  \o (IF limitedCount > 0
      THEN <<" ", NumStr(limitedCount), " ", Noun(kind),
             IF limitedCount = 1 THEN " was" ELSE "s were",
             " skipped due to upload limits.">>
      ELSE <<>>)

redirectError(kind, text) ==
  [tab |-> kind, flash |-> "error", thanks |-> <<>>, text |-> text]

redirectMessage(kind, thanks, text) ==
  [tab |-> kind, flash |-> "message", thanks |-> thanks, text |-> text]

(***************************************************************************)
(* The handler of POST /upload and POST /upload/videos on request req,     *)
(* from the current tables and the upload directory onDisk: the tables,    *)
(* sequences and disk it leaves, the path it took and its response.        *)
(* failAt is the INSERT that throws (0: none does).                        *)
(***************************************************************************)
uploadOutcome(path, got, rows, next, onDisk, counts, accepted, rejected, res) ==
  [path |-> path, uploaders |-> got.rows, nextUploader |-> got.next,
   uploader_id |-> got.uploader.id, rows |-> rows, next |-> next,
   disk |-> onDisk, uploaderCount |-> counts[1], totalCount |-> counts[2],
   allowedNow |-> counts[3], accepted |-> accepted, rejected |-> rejected,
   res |-> res]

\* (mutant) the batch is checked before the name.
uploadHandlerBatchFirst(req, onDisk, failAt) ==
  LET kind == req.kind
      uploadedFiles == req.files
      name == trim(req.name)
      nobody == [uploader |-> [id |-> 0], rows |-> uploaders,
                 next |-> nextId["uploaders"]]
  IN
  IF Len(uploadedFiles) = 0 THEN
    uploadOutcome("empty", nobody, media[kind], nextId[kind], onDisk,
                  <<0, 0, 0>>, <<>>, <<>>,
                  redirectError(kind, <<"Please select at least one ",
                                        Noun(kind), ".">>))
  ELSE IF name = <<>> THEN
    uploadOutcome("name", nobody, media[kind], nextId[kind],
                  safeUnlinkAll(uploadedFiles, onDisk), <<0, 0, 0>>, <<>>, <<>>,
                  redirectError(kind, <<"Please provide your name.">>))
  ELSE
    LET got == getOrCreateUploader(uploaders, nextId["uploaders"], name)
        uploaderCount == getUploaderCount(media[kind], got.uploader.id)
        totalCount == getTotalCount(media[kind])
        remainingGlobal == remainingFor(GlobalLimit(kind), totalCount)
        allowedNow == allowedNowOf(kind, uploaderCount, totalCount)
        counts == <<uploaderCount, totalCount, allowedNow>>
    IN
    IF allowedNow <= 0 THEN
      uploadOutcome("full", got, media[kind], nextId[kind],
                    safeUnlinkAll(uploadedFiles, onDisk), counts, <<>>,
                    uploadedFiles,
                    redirectError(kind, fullReason(kind, remainingGlobal)))
    ELSE
      LET acceptedFiles == slice(uploadedFiles, 0, allowedNow)
          rejectedFiles == slice(uploadedFiles, allowedNow, Len(uploadedFiles))
          afterReject == safeUnlinkAll(rejectedFiles, onDisk)
          done == transaction([rows |-> media[kind], next |-> nextId[kind]],
                              got.uploader.id, acceptedFiles, failAt)
      IN
      IF done.threw THEN
        uploadOutcome("catch", got, done.rows, done.next,
                      safeUnlinkAll(uploadedFiles, afterReject), counts,
                      acceptedFiles, rejectedFiles,
                      redirectError(kind, <<"SqliteError">>))
      ELSE
        uploadOutcome("ok", got, done.rows, done.next, afterReject, counts,
                      acceptedFiles, rejectedFiles,
                      redirectMessage(kind, got.uploader.name,
                        successMessage(kind, Len(acceptedFiles),
                                       Len(rejectedFiles))))

uploadHandler(req, onDisk, failAt) ==
  LET kind == req.kind
      uploadedFiles == req.files
      name == trim(req.name)
      nobody == [uploader |-> [id |-> 0], rows |-> uploaders,
                 next |-> nextId["uploaders"]]
  IN
  IF name = <<>> THEN
    uploadOutcome("name", nobody, media[kind], nextId[kind],
                  safeUnlinkAll(uploadedFiles, onDisk), <<0, 0, 0>>, <<>>, <<>>,
                  redirectError(kind, <<"Please provide your name.">>))
  ELSE IF Len(uploadedFiles) = 0 THEN
    uploadOutcome("empty", nobody, media[kind], nextId[kind], onDisk,
                  <<0, 0, 0>>, <<>>, <<>>,
                  redirectError(kind, <<"Please select at least one ",
                                        Noun(kind), ".">>))
  ELSE
    LET got == getOrCreateUploader(uploaders, nextId["uploaders"], name)
        uploaderCount == getUploaderCount(media[kind], got.uploader.id)
        totalCount == getTotalCount(media[kind])
        remainingGlobal == remainingFor(GlobalLimit(kind), totalCount)
        allowedNow == allowedNowOf(kind, uploaderCount, totalCount)
        counts == <<uploaderCount, totalCount, allowedNow>>
    IN
    IF allowedNow <= 0 THEN
      uploadOutcome("full", got, media[kind], nextId[kind],
                    safeUnlinkAll(uploadedFiles, onDisk), counts, <<>>,
                    uploadedFiles,
                    redirectError(kind, fullReason(kind, remainingGlobal)))
    ELSE
      LET acceptedFiles == slice(uploadedFiles, 0, allowedNow)
          rejectedFiles == slice(uploadedFiles, allowedNow, Len(uploadedFiles))
          afterReject == safeUnlinkAll(rejectedFiles, onDisk)
          done == transaction([rows |-> media[kind], next |-> nextId[kind]],
                              got.uploader.id, acceptedFiles, failAt)
      IN
      IF done.threw THEN
        uploadOutcome("catch", got, done.rows, done.next,
                      safeUnlinkAll(uploadedFiles, afterReject), counts,
                      acceptedFiles, rejectedFiles,
                      redirectError(kind, <<"SqliteError">>))
      ELSE
        uploadOutcome("ok", got, done.rows, done.next, afterReject, counts,
                      acceptedFiles, rejectedFiles,
                      redirectMessage(kind, got.uploader.name,
                        successMessage(kind, Len(acceptedFiles),
                                       Len(rejectedFiles))))

(***************************************************************************)
(* Actions.                                                                *)
(***************************************************************************)
\* The empty tables and directories the start-up code creates.
EmptyStore ==
  /\ uploaders = {}
  /\ media = [k \in Kinds |-> {}]
  /\ nextId = [t \in Kinds \cup {"uploaders"} |-> 1]
  /\ disk = {}
  /\ inflight = [r \in Requests |-> None]
  /\ clock = 1
  /\ lastOp = Idle
  /\ tmp = {}
  /\ exports = [e \in ExportSlots |-> None]

\* A setting of process.env: not set, or set to a string.
Unset == [set |-> FALSE]
Setting(s) == [set |-> TRUE, value |-> s]

\* The environment the test suite runs the server in.
TestEnv ==
  [MAX_VIDEOS_PER_PERSON |-> Setting("2"), MAX_TOTAL_VIDEOS |-> Setting("3"),
   MAX_VIDEO_SIZE_MB |-> Setting("1")]

Init == EmptyStore /\ session = None /\ env = TestEnv

\* The state after the admin's login on the empty store: Init, Login with
\* the right credentials, Deliver.
InitLoggedIn == EmptyStore /\ session = [isAdmin |-> TRUE] /\ env = TestEnv

\* storageFilename: `${Date.now()}-${Math.round(Math.random() * 1e9)}${ext}`.
storageFilename(now, random) == <<now, random>>

\* The clock readings and random numbers storageFilename can get.  With
\* Distinct the clock advances from one file to the next, so that no two
\* names are equal; with SameMillisecond all files are stored at one clock
\* reading and Math.random returns one of two values.
\* originals are the names the files have on the guest's device
\* (file.originalname), as sequences of characters.
Distinct == [ticks |-> {1}, randoms |-> {0}, originals |-> {<<"f">>}]
SameMillisecond ==
  [ticks |-> {0}, randoms |-> {0, 1}, originals |-> {<<"f">>}]
\* Names with characters that are unsafe in a path, with blanks, and no
\* name at all.
UnsafeOriginals ==
  [ticks |-> {1}, randoms |-> {0},
   originals |-> { <<"a", "/", "b">>, <<"a", "?", "b">>,
                   <<" ", "a", " ", " ", "b", " ">>, <<>> }]

\* The req.files of a batch of n files stored from clock reading now on, the
\* clock advancing by tick per file, random[i] the random number and
\* original[i] the original name of file i.
storedBatch(now, n, tick, random, original) ==
  [i \in 1..n |->
     [filename |-> storageFilename(now + tick * (i - 1), random[i]),
      originalname |-> original[i]]]

\* The sizes of the batches multer can still store: at most limits.files
\* files, within the clock readings and the rows of the model.
BatchSizes(kind, tick) ==
  { l \in 0..PerPersonLimit(kind) :
      /\ clock + tick * l <= MaxFiles + 1
      /\ (nextId["photo"] - 1) + (nextId["video"] - 1) + l <= MaxFiles
      /\ l = 0 \/ nextId["uploaders"] <= MaxFiles }

\* The requests multer can hand to a handler, their files stored under the
\* names storageFilename generates.
ParsedRequests(kinds, names, naming) ==
  UNION { UNION { { [tag |-> "upload", kind |-> kind, name |-> name,
                     files |-> storedBatch(clock, Len(fs.random), tick,
                                           fs.random, fs.original),
                     missed |-> 0, tick |-> tick] :
                      name \in names,
                      fs \in UNION { [random : [1..l -> naming.randoms],
                                     original : [1..l -> naming.originals]] :
                                      l \in BatchSizes(kind, tick) } } :
                  tick \in naming.ticks } : kind \in kinds }

\* The files of a request, written into uploadDir by multer's disk storage.
stored(req, onDisk) == onDisk \cup { f.filename : f \in Range(req.files) }

\* The route handler runs to completion on request req, the upload directory
\* holding onDisk; the requests in pending stay in flight.
respond(req, onDisk, pending) ==
  \E failAt \in 0..Len(req.files) :
    \E out \in { uploadHandler(req, onDisk, failAt) } :
    LET written == Cardinality(out.rows) - Cardinality(media[req.kind])
    IN  /\ failAt > 0 => out.path = "catch"
        /\ uploaders' = out.uploaders
        /\ media' = [media EXCEPT ![req.kind] = out.rows]
        /\ nextId' = [nextId EXCEPT !["uploaders"] = out.nextUploader,
                                    ![req.kind] = out.next]
        /\ disk' = out.disk
        /\ inflight' = [q \in Requests |->
             IF q \in pending /\ inflight[q] # None
                /\ inflight[q].kind = req.kind
             THEN [inflight[q] EXCEPT !.missed = @ + written]
             ELSE IF q \in pending THEN inflight[q] ELSE None]
        /\ lastOp' = [type |-> "upload", kind |-> req.kind,
                      name |-> req.name, files |-> req.files,
                      missed |-> req.missed, failAt |-> failAt,
                      before |-> media[req.kind],
                      uploadersBefore |-> uploaders, path |-> out.path,
                      uploader_id |-> out.uploader_id,
                      uploaderCount |-> out.uploaderCount,
                      totalCount |-> out.totalCount,
                      allowedNow |-> out.allowedNow,
                      accepted |-> out.accepted, rejected |-> out.rejected,
                      res |-> out.res]

\* One upload request from start to end: multer stores the batch, then the
\* handler runs.
Upload(kinds, names, naming) ==
  /\ lastOp = Idle
  /\ \E req \in ParsedRequests(kinds, names, naming) :
       /\ clock' = clock + req.tick * Len(req.files)
       /\ respond(req, stored(req, disk), Requests)
  /\ UNCHANGED adminVars

\* multer has parsed request r and stored its files; its handler has not run.
Receive(r, kinds, names, naming) ==
  /\ lastOp = Idle
  /\ inflight[r] = None
  /\ \E req \in ParsedRequests(kinds, names, naming) :
       /\ inflight' = [inflight EXCEPT ![r] = req]
       /\ disk' = stored(req, disk)
       /\ clock' = clock + req.tick * Len(req.files)
  /\ UNCHANGED <<uploaders, media, nextId, lastOp>>
  /\ UNCHANGED adminVars

\* The handler of the parsed request r runs to completion.
HandleUpload(r) ==
  /\ lastOp = Idle
  /\ inflight[r] # None
  /\ respond(inflight[r], disk, Requests \ {r})
  /\ UNCHANGED clock
  /\ UNCHANGED adminVars

(***************************************************************************)
(* The admin session and the admin routes.                                 *)
(***************************************************************************)
\* (mutant) every request passes.
isAdminAnyone(sess) == TRUE

\* isAdmin: req.session && req.session.isAdmin === true.
isAdmin(sess) == sess # None /\ sess.isAdmin = TRUE

\* The session a request can come with: the browser's, or no session yet.
Clients == {session, None}

\* ADMIN_USERNAME and ADMIN_PASSWORD, as sequences of characters (the
\* word is one character of the model).
expectedUsername == <<"admin">>
expectedPassword == <<"change-this-password">>

\* The login forms a client can post.
AdminCredentials ==
  { [username |-> <<" ", "admin">>,
     password |-> <<"change-this-password", " ">>] }
CredentialInputs ==
  AdminCredentials \cup { [username |-> <<"admin">>, password |-> <<"guess">>] }

\* (mutant) 0 where Number gives NaN.
NumberOrZero(s) ==
  LET int(n) == [isNaN |-> FALSE, isInteger |-> TRUE, value |-> n]
  IN  CASE s = "1" -> int(1) [] s = "2" -> int(2) [] s = "3" -> int(3)
        [] s = "4" -> int(4) [] s = "5" -> int(5) [] s = "6" -> int(6)
        [] s = "1.5" -> [isNaN |-> FALSE, isInteger |-> FALSE, value |-> 1]
        [] OTHER -> int(0)

\* Number(req.params.id): NaN for a string that is no numeric literal, the
\* number otherwise, which need not be an integer.
Number(s) ==
  LET int(n) == [isNaN |-> FALSE, isInteger |-> TRUE, value |-> n]
  IN  CASE s = "0" -> int(0) [] s = "1" -> int(1) [] s = "2" -> int(2)
        [] s = "3" -> int(3) [] s = "4" -> int(4) [] s = "5" -> int(5)
        [] s = "6" -> int(6) [] s = "7" -> int(7) [] s = "8" -> int(8)
        [] s = "9" -> int(9) [] s = "10" -> int(10)
        [] s = "1.5" -> [isNaN |-> FALSE, isInteger |-> FALSE, value |-> 1]
        [] OTHER -> [isNaN |-> TRUE, isInteger |-> FALSE, value |-> 0]

\* The :id parameters of the requests explored: the rowids, and with
\* malformed also a word and a fraction.
RowIds == { NumStr(n) : n \in 1..MaxFiles }
IdParams == RowIds \cup {"abc", "1.5"}

\* (mutant) the fraction of the id is dropped, as parseInt does.
selectByIdTruncated(rows, id) == { m \in rows : ~ id.isNaN /\ m.id = id.value }

\* SELECT ... FROM photos|videos WHERE id = ?
selectById(rows, id) == { m \in rows : id.isInteger /\ m.id = id.value }

Capitalized(kind) == IF kind = "photo" THEN "Photo" ELSE "Video"

\* res.redirect('/admin/photos?error=' ...) and its siblings.
adminRedirect(kind, flash, text) ==
  [status |-> 302, location |-> <<"/admin/", Noun(kind), "s">>,
   flash |-> flash, text |-> text]

\* res.redirect('/admin/login').
loginRedirect ==
  [status |-> 302, location |-> <<"/admin/login">>, flash |-> "none",
   text |-> <<>>]

\* The sets of files whose unlink can throw.
Unlinkable(names, fsFaults) == IF fsFaults THEN SUBSET names ELSE {{}}

\* safeUnlink: fs.unlinkSync inside try/catch; stuck are the files whose
\* unlink throws.
safeUnlink(filename, onDisk, stuck) ==
  IF filename \in stuck THEN onDisk ELSE onDisk \ {filename}

\* What a request finds: the tables, the directories, the session store and
\* the exports in progress.
snapshot == [uploaders |-> uploaders, media |-> media, nextId |-> nextId,
             disk |-> disk, session |-> session, tmp |-> tmp,
             exports |-> exports]

\* requireAdmin turned the request away: no handler runs.
Denied(route, sess) ==
  /\ lastOp' = [type |-> "denied", route |-> route, sess |-> sess,
                before |-> snapshot, res |-> loginRedirect]
  /\ UNCHANGED <<storeVars, inflight, clock, adminVars>>

\* POST /admin/login.
Login(credentials) ==
  /\ lastOp = Idle
  /\ \E cred \in credentials :
       LET username == trim(cred.username)
           password == trim(cred.password)
           ok == username = expectedUsername /\ password = expectedPassword
       IN  /\ session' = IF ok THEN [isAdmin |-> TRUE] ELSE session
           /\ lastOp' = [type |-> "login", ok |-> ok, cred |-> cred,
                         before |-> snapshot,
                         res |-> IF ok
                                 THEN adminRedirect("photo", "none", <<>>)
                                 ELSE [loginRedirect EXCEPT
                                         !.flash = "error",
                                         !.text = <<"Invalid username or password.">>]]
  /\ UNCHANGED <<storeVars, inflight, clock, tmp, exports, env>>

\* POST /admin/logout: req.session.destroy, for any request.
Logout(sess) ==
  /\ lastOp = Idle
  /\ session' = IF sess = session THEN None ELSE session
  /\ lastOp' = [type |-> "logout", sess |-> sess, before |-> snapshot,
                res |-> loginRedirect]
  /\ UNCHANGED <<storeVars, inflight, clock, tmp, exports, env>>

\* POST /admin/photo/:id/delete and POST /admin/video/:id/delete.
DeleteOne(sess, kind, param, fsFaults) ==
  LET id == Number(param)
      found == selectById(media[kind], id)
  IN  /\ lastOp = Idle
      /\ IF ~ isAdmin(sess) THEN Denied("deleteOne", sess)
         ELSE IF id.isNaN
         THEN /\ lastOp' = [type |-> "deleteOne", sess |-> sess,
                            kind |-> kind,
                            param |-> param, id |-> 0, found |-> FALSE,
                            owner |-> {}, stuck |-> {}, before |-> snapshot,
                            res |-> adminRedirect(kind, "error",
                                      <<"Invalid ", Noun(kind), " ID.">>)]
              /\ UNCHANGED <<storeVars, inflight, clock, adminVars>>
         ELSE IF found = {}
         THEN /\ lastOp' = [type |-> "deleteOne", sess |-> sess,
                            kind |-> kind,
                            param |-> param, id |-> id.value,
                            found |-> FALSE, owner |-> {}, stuck |-> {},
                            before |-> snapshot,
                            res |-> adminRedirect(kind, "error",
                                      <<Capitalized(kind), " not found.">>)]
              /\ UNCHANGED <<storeVars, inflight, clock, adminVars>>
         ELSE
           LET row == CHOOSE m \in found : TRUE
               tables == [media EXCEPT ![kind] = @ \ {row}]
           IN  \E stuck \in Unlinkable({row.filename}, fsFaults) :
               /\ media' = tables
               /\ disk' = safeUnlink(row.filename, disk, stuck)
               /\ uploaders' = cleanupOrphanUploaders(uploaders, tables)
               /\ lastOp' = [type |-> "deleteOne", sess |-> sess,
                             kind |-> kind,
                             param |-> param, id |-> id.value,
                             found |-> TRUE, row |-> row,
                             before |-> snapshot,
                             owner |-> { u \in uploaders :
                                           u.id = row.uploader_id },
                             stuck |-> stuck,
                             res |-> adminRedirect(kind, "message",
                                       <<Capitalized(kind), " deleted.">>)]
               /\ UNCHANGED <<nextId, inflight, clock, adminVars>>

RECURSIVE safeUnlinkEach(_, _, _)
\* for (const photo of photos) safeUnlink(path.join(uploadDir, photo.filename))
safeUnlinkEach(names, onDisk, stuck) ==
  IF names = {} THEN onDisk
  ELSE LET name == CHOOSE n \in names : TRUE
       IN  safeUnlinkEach(names \ {name}, safeUnlink(name, onDisk, stuck),
                          stuck)

\* POST /admin/photos/delete-all and POST /admin/videos/delete-all.
DeleteAll(sess, kind, fsFaults) ==
  LET tables == [media EXCEPT ![kind] = {}]
      names == { m.filename : m \in media[kind] }
  IN  /\ lastOp = Idle
      /\ IF ~ isAdmin(sess) THEN Denied("deleteAll", sess)
         ELSE \E stuck \in Unlinkable(names, fsFaults) :
           /\ disk' = safeUnlinkEach(names, disk, stuck)
           /\ media' = tables
           /\ uploaders' = cleanupOrphanUploaders(uploaders, tables)
           /\ lastOp' = [type |-> "deleteAll", sess |-> sess, kind |-> kind,
                         uploadersBefore |-> uploaders,
                         stuck |-> stuck,
                         res |-> adminRedirect(kind, "message",
                                   <<"All ", Noun(kind), "s deleted.">>)]
           /\ UNCHANGED <<nextId, inflight, clock, adminVars>>

\* GET /admin/photo/:id and GET /admin/video/:id, between requireAdmin and
\* the response.
fetchResponse(kind, rows, onDisk, param) ==
  LET id == Number(param)
      found == selectById(rows, id)
  IN  IF id.isNaN
      THEN [status |-> 400, text |-> <<"Invalid ", Noun(kind), " ID">>,
            file |-> None]
      ELSE IF found = {}
      THEN [status |-> 404, text |-> <<Capitalized(kind), " not found">>,
            file |-> None]
      ELSE LET row == CHOOSE m \in found : TRUE
           IN  IF row.filename \notin onDisk
               THEN [status |-> 404, text |-> <<"File missing on server">>,
                     file |-> None]
               ELSE [status |-> 200, text |-> <<>>,
                     file |-> [filename |-> row.filename]]

\* GET /admin/photo/:id and GET /admin/video/:id.
FetchOne(sess, kind, param) ==
  /\ lastOp = Idle
  /\ IF ~ isAdmin(sess) THEN Denied("fetch", sess)
     ELSE /\ lastOp' = [type |-> "fetch", sess |-> sess, kind |-> kind,
                        param |-> param, before |-> snapshot,
                        res |-> fetchResponse(kind, media[kind], disk, param)]
          /\ UNCHANGED <<storeVars, inflight, clock, adminVars>>

\* GET /admin/photos and GET /admin/videos: renderAdminMedia.
List(sess, kind) ==
  /\ lastOp = Idle
  /\ IF ~ isAdmin(sess) THEN Denied("list", sess)
     ELSE /\ lastOp' = [type |-> "list", sess |-> sess, kind |-> kind,
                        before |-> snapshot,
                        res |-> [status |-> 200,
                                 photoCount |-> getTotalCount(media["photo"]),
                                 videoCount |-> getTotalCount(media["video"]),
                                 mediaItems |->
                                   { m.id : m \in
                                       { r \in media[kind] :
                                           \E u \in uploaders :
                                             u.id = r.uploader_id } }]]
          /\ UNCHANGED <<storeVars, inflight, clock, adminVars>>

(***************************************************************************)
(* The export: GET /admin/photos/download and GET /admin/videos/download.  *)
(* The handler is an async function: it stages the files and starts zip    *)
(* (StartExport), resumes when zip has ended and starts the download       *)
(* (ZipDone), and cleans up in the callback of the download (StreamDone);  *)
(* other requests are served in between.                                   *)
(***************************************************************************)
\* fs.mkdtempSync(path.join(os.tmpdir(), 'wedding-photos-')): a directory
\* that did not exist, one per export in progress.
mkdtempSync(kind, e) == <<"wedding-", kind, "s-", e>>

\* path.join(os.tmpdir(), `wedding-photos-${Date.now()}.zip`).
archivePathOf(kind, now) == <<"wedding-", kind, "s-", now, ".zip">>

\* String(id).padStart(4, '0'), digit by digit, for the ids of the model.
padStart4(id) ==
  IF id < 10 THEN <<"0", "0", "0", NumStr(id)>> ELSE <<"0", "0", "1", "0">>

\* .replace(/[/\\?%*:|"<>]/g, '-'), per character.
replaceUnsafe(c) ==
  IF c \in {"/", "\\", "?", "%", "*", ":", "|", "\"", "<", ">"} THEN "-" ELSE c

\* .replace(/\s+/g, ' '): a run of blanks becomes one blank.
RECURSIVE collapseBlanks(_)
collapseBlanks(s) ==
  IF Len(s) < 2 THEN s
  ELSE IF s[1] = " " /\ s[2] = " " THEN collapseBlanks(Tail(s))
  ELSE <<s[1]>> \o collapseBlanks(Tail(s))

\* sanitizeArchiveFilename.
sanitizeArchiveFilename(name) ==
  trim(collapseBlanks([i \in DOMAIN name |-> replaceUnsafe(name[i])]))

\* `photo-${photo.id}${path.extname(photo.filename) || ''}`; the stored
\* names of the model have no extension.
fallbackName(kind, row) == <<Noun(kind), "-", NumStr(row.id)>>

\* (mutant) the id is left out of the name.
stagedNameWithoutId(kind, row) ==
  sanitizeArchiveFilename(IF row.original_name # <<>> THEN row.original_name
                          ELSE fallbackName(kind, row))

\* The name of a record's copy in the scratch directory:
\* `${String(id).padStart(4, '0')}-${sanitizeArchiveFilename(original_name
\* || fallbackName)}`.
stagedName(kind, row) ==
  padStart4(row.id) \o <<"-">>
    \o sanitizeArchiveFilename(IF row.original_name # <<>>
                               THEN row.original_name
                               ELSE fallbackName(kind, row))

\* SELECT ... ORDER BY uploaded_at DESC, id DESC: the rows, newest first.
\* The rows of the model are inserted in the order of their ids and carry
\* no timestamp of their own.
RECURSIVE queryOrder(_)
queryOrder(rows) ==
  IF rows = {} THEN <<>>
  ELSE LET newest == CHOOSE m \in rows : \A o \in rows : o.id <= m.id
       IN  <<newest>> \o queryOrder(rows \ {newest})

\* The copy loop: for each row of the query whose file exists, in the order
\* of the query, the name it is copied under and the row it is a copy of.
copyLoop(kind, rows, present) ==
  LET kept == SelectSeq(queryOrder(rows), LAMBDA m : m \in present)
  IN  [i \in DOMAIN kept |->
         [name |-> stagedName(kind, kept[i]), id |-> kept[i].id]]

\* (mutant) no record is skipped.
presentFilesAll(rows, onDisk) == rows

\* The records the copy loop does not skip: fs.existsSync(sourcePath).
presentFiles(rows, onDisk) == { m \in rows : m.filename \in onDisk }

\* (mutant) the directory is left where it is.
safeRemoveDirNothing(dirPath, entries) == entries

\* safeRemoveDir: fs.rmSync(dirPath, {recursive: true, force: true}).
safeRemoveDir(dirPath, entries) == entries \ {dirPath}

\* (mutant) the failure is reported as a success message.
archiveErrorAsMessage(kind) ==
  adminRedirect(kind, "message",
                <<"Could not create ZIP archive on this server.">>)

archiveError(kind) ==
  adminRedirect(kind, "error",
                <<"Could not create ZIP archive on this server.">>)

\* (mutant) the test for no records is missing.
exportPathNoEmptyTest(rows, present, copyThrows) ==
  IF copyThrows THEN "catch"
  ELSE IF present = {} THEN "missing"
  ELSE "zip"

\* Where the synchronous part of the handler ends: "none" (no records),
\* "catch" (fs.copyFileSync threw), "missing" (copiedCount === 0), or "zip"
\* (waiting for zip).
exportPath(rows, present, copyThrows) ==
  IF rows = {} THEN "none"
  ELSE IF copyThrows THEN "catch"
  ELSE IF present = {} THEN "missing"
  ELSE "zip"

\* The handler up to its first await or return.
StartExport(e, sess, kind, fsFaults) ==
  /\ lastOp = Idle
  /\ exports[e] = None
  /\ IF ~ isAdmin(sess) THEN Denied("download", sess)
     ELSE
       LET rows == media[kind]
           present == presentFiles(rows, disk)
           tempDir == mkdtempSync(kind, e)
           archivePath == archivePathOf(kind, clock)
           copied == copyLoop(kind, rows, present)
           staged == { <<c.id>> : c \in Range(copied) }
       IN  \E copyThrows \in
                (IF fsFaults /\ present # {} THEN BOOLEAN ELSE {FALSE}) :
           LET path == exportPath(rows, present, copyThrows)
               made == IF path = "none" THEN tmp ELSE tmp \cup {tempDir}
               cleaned == safeRemoveDir(tempDir,
                                        safeUnlink(archivePath, made, {}))
               ex == [sess |-> sess, kind |-> kind, tempDir |-> tempDir,
                      archivePath |-> archivePath, staged |-> staged,
                      copied |-> copied,
                      pc |-> "zip"]
           IN  /\ tmp' = CASE path = "none" -> tmp
                           [] path = "zip" -> made
                           [] OTHER -> cleaned
               /\ exports' = IF path = "zip"
                             THEN [exports EXCEPT ![e] = ex]
                             ELSE exports
               /\ lastOp' =
                    [type |-> "export", sess |-> sess, slot |-> e,
                     kind |-> kind, path |-> path, tempDir |-> tempDir,
                     archivePath |-> archivePath, staged |-> staged,
                     copied |-> copied, tmpBefore |-> tmp,
                     res |-> CASE path = "none" ->
                                   adminRedirect(kind, "error",
                                     <<"No ", Noun(kind), "s to download.">>)
                               [] path = "missing" ->
                                   adminRedirect(kind, "error",
                                     <<Capitalized(kind),
                                       " files are missing on disk.">>)
                               [] path = "catch" -> archiveError(kind)
                               [] OTHER -> None]
               /\ UNCHANGED <<storeVars, inflight, clock, session, env>>

\* zip has ended.  If it failed, the await throws and the catch block cleans
\* up and redirects; else res.download starts streaming the archive, unless
\* it throws, which also ends in the catch block.
ZipDone(e, fsFaults) ==
  /\ lastOp = Idle
  /\ exports[e] # None
  /\ exports[e].pc = "zip"
  /\ \E thrown \in (IF fsFaults THEN {"nothing", "zip", "download"}
                    ELSE {"nothing"}) :
       LET ex == exports[e]
           zipped == IF thrown = "zip" THEN tmp ELSE tmp \cup {ex.archivePath}
           seen == [type |-> "export", sess |-> ex.sess, slot |-> e,
                    kind |-> ex.kind,
                    tempDir |-> ex.tempDir, archivePath |-> ex.archivePath,
                    staged |-> ex.staged, tmpBefore |-> tmp]
       IN  IF thrown # "nothing"
           THEN /\ tmp' = safeRemoveDir(ex.tempDir,
                                        safeUnlink(ex.archivePath, zipped, {}))
                /\ exports' = [exports EXCEPT ![e] = None]
                /\ lastOp' = seen @@ [path |-> IF thrown = "zip"
                                               THEN "zipFailed"
                                               ELSE "downloadFailed",
                                      res |-> archiveError(ex.kind)]
           ELSE /\ tmp' = zipped
                /\ exports' = [exports EXCEPT ![e].pc = "stream"]
                /\ lastOp' = seen @@ [path |-> "streaming",
                                      res |-> [status |-> 200,
                                               archive |-> ex.staged]]
  /\ UNCHANGED <<storeVars, inflight, clock, session, env>>

\* The callback of res.download runs: the transfer is complete, or it broke.
StreamDone(e, fsFaults) ==
  /\ lastOp = Idle
  /\ exports[e] # None
  /\ exports[e].pc = "stream"
  /\ \E broke \in (IF fsFaults THEN BOOLEAN ELSE {FALSE}) :
       LET ex == exports[e]
       IN  /\ tmp' = safeRemoveDir(ex.tempDir,
                                   safeUnlink(ex.archivePath, tmp, {}))
           /\ exports' = [exports EXCEPT ![e] = None]
           /\ lastOp' = [type |-> "export", sess |-> ex.sess, slot |-> e,
                         kind |-> ex.kind,
                         path |-> IF broke THEN "streamFailed" ELSE "streamed",
                         tempDir |-> ex.tempDir,
                         archivePath |-> ex.archivePath,
                         staged |-> ex.staged, tmpBefore |-> tmp,
                         res |-> [status |-> 200, archive |-> ex.staged]]
  /\ UNCHANGED <<storeVars, inflight, clock, session, env>>

\* A file of the upload directory is removed from outside the program.
RemoveFile ==
  /\ lastOp = Idle
  /\ \E name \in disk :
       disk' = disk \ {name}
  /\ UNCHANGED <<uploaders, media, nextId, inflight, clock, lastOp, adminVars>>

(***************************************************************************)
(* The video limits as the start-up code reads them from process.env, and  *)
(* the handler of POST /upload/videos on the numbers that come out, NaN    *)
(* included.                                                               *)
(***************************************************************************)
EnvKeys == {"MAX_VIDEOS_PER_PERSON", "MAX_TOTAL_VIDEOS", "MAX_VIDEO_SIZE_MB"}

\* The second operands of `process.env.X || ...`.
Fallbacks ==
  [MAX_VIDEOS_PER_PERSON |-> 10, MAX_TOTAL_VIDEOS |-> 400,
   MAX_VIDEO_SIZE_MB |-> 1200]

\* The environments explored: each setting absent, the number of the test
\* suite, or a word.
Environments ==
  { e \in [EnvKeys -> {Unset, Setting("1"), Setting("2"), Setting("3"),
                       Setting("abc")}] :
      \A key \in EnvKeys : e[key] \in {Unset, TestEnv[key], Setting("abc")} }

\* Number(process.env.X || fallback): the fallback for an absent or empty
\* setting, Number of the string otherwise.
configured(settings, key) ==
  IF ~ settings[key].set \/ settings[key].value = ""
  THEN [isNaN |-> FALSE, isInteger |-> TRUE, value |-> Fallbacks[key]]
  ELSE Number(settings[key].value)

\* Math.max(0, limit - count) for a limit that can be NaN.
mathMaxZero(limit, count) ==
  IF limit.isNaN THEN limit ELSE [limit EXCEPT !.value = Max(0, @ - count)]

\* Math.min(a, b): NaN if either is.
mathMin(a, b) ==
  IF a.isNaN THEN a ELSE IF b.isNaN THEN b
  ELSE IF a.value <= b.value THEN a ELSE b

\* x <= 0, false for NaN.
notPositive(x) == ~ x.isNaN /\ x.value <= 0

\* The index Array.prototype.slice makes of its argument: 0 for NaN.
toIndex(x) == IF x.isNaN THEN 0 ELSE x.value

\* `${MAX_VIDEOS_PER_PERSON}` in a message.
limitText(x) == IF x.isNaN THEN "NaN" ELSE NumStr(x.value)

\* The handler of POST /upload/videos with the limits configured by
\* settings; no INSERT fails.
uploadVideosHandler(req, onDisk, settings) ==
  LET kind == "video"
      uploadedFiles == req.files
      name == trim(req.name)
      nobody == [uploader |-> [id |-> 0], rows |-> uploaders,
                 next |-> nextId["uploaders"]]
      nothing == [isNaN |-> FALSE, isInteger |-> TRUE, value |-> 0]
  IN
  IF name = <<>> THEN
    uploadOutcome("name", nobody, media[kind], nextId[kind],
                  safeUnlinkAll(uploadedFiles, onDisk),
                  <<0, 0, nothing>>, <<>>, <<>>,
                  redirectError(kind, <<"Please provide your name.">>))
  ELSE IF Len(uploadedFiles) = 0 THEN
    uploadOutcome("empty", nobody, media[kind], nextId[kind], onDisk,
                  <<0, 0, nothing>>, <<>>, <<>>,
                  redirectError(kind, <<"Please select at least one ",
                                        "video", ".">>))
  ELSE
    LET got == getOrCreateUploader(uploaders, nextId["uploaders"], name)
        uploaderCount == getUploaderCount(media[kind], got.uploader.id)
        totalCount == getTotalCount(media[kind])
        perPerson == configured(settings, "MAX_VIDEOS_PER_PERSON")
        remainingForUploader == mathMaxZero(perPerson, uploaderCount)
        remainingGlobal ==
          mathMaxZero(configured(settings, "MAX_TOTAL_VIDEOS"), totalCount)
        allowedNow == mathMin(remainingForUploader, remainingGlobal)
        counts == <<uploaderCount, totalCount, allowedNow>>
    IN
    IF notPositive(allowedNow) THEN
      uploadOutcome("full", got, media[kind], nextId[kind],
                    safeUnlinkAll(uploadedFiles, onDisk), counts, <<>>,
                    uploadedFiles,
                    redirectError(kind,
                      IF notPositive(remainingGlobal)
                      THEN <<"Video upload limit reached: this gallery is full.">>
                      ELSE <<"You have already uploaded your maximum of ",
                             limitText(perPerson), " videos.">>))
    ELSE
      LET acceptedFiles == slice(uploadedFiles, 0, toIndex(allowedNow))
          rejectedFiles == slice(uploadedFiles, toIndex(allowedNow),
                                 Len(uploadedFiles))
          afterReject == safeUnlinkAll(rejectedFiles, onDisk)
          done == transaction([rows |-> media[kind], next |-> nextId[kind]],
                              got.uploader.id, acceptedFiles, 0)
      IN  uploadOutcome("ok", got, done.rows, done.next, afterReject, counts,
                        acceptedFiles, rejectedFiles,
                        redirectMessage(kind, got.uploader.name,
                          successMessage(kind, Len(acceptedFiles),
                                         Len(rejectedFiles))))

\* One video upload from start to end under the limits configured by env.
\* The batches are those of ParsedRequests, of at most two files.
UploadVideosConfigured(names) ==
  /\ lastOp = Idle
  /\ \E req \in ParsedRequests({"video"}, names, Distinct) :
       LET out == uploadVideosHandler(req, stored(req, disk), env)
       IN  /\ clock' = clock + req.tick * Len(req.files)
           /\ uploaders' = out.uploaders
           /\ media' = [media EXCEPT !["video"] = out.rows]
           /\ nextId' = [nextId EXCEPT !["uploaders"] = out.nextUploader,
                                       !["video"] = out.next]
           /\ disk' = out.disk
           /\ lastOp' = [type |-> "upload", kind |-> "video",
                         name |-> req.name, files |-> req.files,
                         missed |-> 0, failAt |-> 0,
                         before |-> media["video"],
                         uploadersBefore |-> uploaders, path |-> out.path,
                         uploader_id |-> out.uploader_id,
                         uploaderCount |-> out.uploaderCount,
                         totalCount |-> out.totalCount,
                         allowedNow |-> out.allowedNow,
                         accepted |-> out.accepted, rejected |-> out.rejected,
                         res |-> out.res]
  /\ UNCHANGED <<inflight, adminVars>>

(***************************************************************************)
(* The error middleware, app.use((err, req, res, next) => ...).            *)
(***************************************************************************)
\* req.path of the requests that can end in the middleware.
ErrorPaths == {"/upload", "/upload/videos", "/admin/photos"}

\* The errors handed to the middleware: those of multer, an Error of a file
\* filter or of a handler with its message, an Error without a message, and
\* no error at all (None), as the test suite calls it.
MulterCodes == {"LIMIT_FILE_SIZE", "LIMIT_FILE_COUNT", "LIMIT_UNEXPECTED_FILE"}
Errors ==
  { [class |-> "MulterError", code |-> c, message |-> <<c>>] :
      c \in MulterCodes }
  \cup { [class |-> "Error", code |-> "", message |-> m] :
           m \in { <<"Only image files are allowed.">>,
                   <<"SQLITE_CANTOPEN: unable to open database file">>,
                   <<>> } }
  \cup { None }

\* uploadTabFromRequest.
uploadTabFromRequest(path) ==
  IF path = "/upload/videos" THEN "videos" ELSE "photos"

\* res.redirect(`/?tab=${uploadTab}&error=` + encodeURIComponent(text)).
errorRedirect(uploadTab, text) ==
  [status |-> 302, tab |-> uploadTab, flash |-> "error", text |-> text]

\* (mutant) the message of the error is not passed on.
onErrorHidesMessage(err, path, settings) ==
  IF err # None /\ err.class = "MulterError"
  THEN errorRedirect(uploadTabFromRequest(path), <<"Upload error.">>)
  ELSE IF err # None
  THEN errorRedirect(uploadTabFromRequest(path),
                     <<"Unexpected error occurred.">>)
  ELSE [status |-> 500, tab |-> "", flash |-> "none",
        text |-> <<"Unexpected server error">>]

\* The middleware on error err of a request for path, the limits configured
\* by settings.
onError(err, path, settings) ==
  IF err # None /\ err.class = "MulterError"
  THEN LET uploadTab == uploadTabFromRequest(path)
       IN  errorRedirect(uploadTab,
             CASE err.code = "LIMIT_FILE_SIZE" ->
                    IF uploadTab = "videos"
                    THEN <<"A video file is too large. Max size is ",
                           limitText(configured(settings, "MAX_VIDEO_SIZE_MB")),
                           "MB per video.">>
                    ELSE <<"A file is too large. Max size is 20MB per photo.">>
               [] err.code = "LIMIT_FILE_COUNT" ->
                    IF uploadTab = "videos"
                    THEN <<"You can upload up to ",
                           limitText(configured(settings,
                                                "MAX_VIDEOS_PER_PERSON")),
                           " videos at a time.">>
                    ELSE <<"You can upload up to ",
                           NumStr(MAX_PHOTOS_PER_PERSON), " photos at a time.">>
               [] OTHER -> <<"Upload error.">>)
  ELSE IF err # None
  THEN errorRedirect(uploadTabFromRequest(path),
                     IF err.message # <<>> THEN err.message
                     ELSE <<"Unexpected error occurred.">>)
  ELSE [status |-> 500, tab |-> "", flash |-> "none",
        text |-> <<"Unexpected server error">>]

\* A request ends in the error middleware; multer has removed the files it
\* had stored for the request, and no handler has run.
Fail ==
  /\ lastOp = Idle
  /\ \E err \in Errors, path \in ErrorPaths :
       lastOp' = [type |-> "error", err |-> err, path |-> path,
                  before |-> snapshot, res |-> onError(err, path, env)]
  /\ UNCHANGED <<storeVars, inflight, clock, adminVars>>

\* A millisecond passes: Date.now() returns the next value.
Tick ==
  /\ lastOp = Idle
  /\ clock <= MaxFiles
  /\ clock' = clock + 1
  /\ UNCHANGED <<storeVars, inflight, lastOp, adminVars>>

\* The response of the request just served has gone out.
Deliver ==
  /\ lastOp # Idle
  /\ lastOp' = Idle
  /\ UNCHANGED <<storeVars, inflight, clock, adminVars>>

\* Requests are served one after another: every upload is parsed and handled
\* before the next request starts.  The file system does what it is asked,
\* the stored names are pairwise different, the admin logs in and stays
\* logged in.
Next ==
  \/ Upload(Kinds, NameInputs, Distinct)
  \/ Login(AdminCredentials)
  \/ \E kind \in Kinds, param \in RowIds :
       DeleteOne(session, kind, param, FALSE)
  \/ \E kind \in Kinds : DeleteAll(session, kind, FALSE)
  \/ Deliver

Spec == Init /\ [][Next]_vars

\* Two guests (or two tabs of one guest) upload at the same time: both
\* requests can be parsed, their files stored, before either handler runs,
\* and an admin's delete-all can fall between the two stages of an upload.
\* The runs explored are those of video uploads (the limits 2 and 3) under
\* two names, the admin being logged in.
ConcurrentKinds == {"video"}
ConcurrentNames == { <<"a">>, <<"b">> }

NextConcurrent ==
  \/ \E r \in Requests : Receive(r, ConcurrentKinds, ConcurrentNames, Distinct)
  \/ \E r \in Requests : HandleUpload(r)
  \/ \E kind \in ConcurrentKinds : DeleteAll(session, kind, FALSE)
  \/ Deliver

SpecConcurrent == InitLoggedIn /\ [][NextConcurrent]_vars

\* Uploads and deletions, one request after another, the admin logged in,
\* where the names storageFilename generates are whatever the clock and
\* Math.random make them: two files stored within one millisecond get the
\* same name when Math.random returns the same number twice.  multer's disk
\* storage opens the path for writing, so the second file replaces the
\* first under the one name.
NextNames ==
  \/ Upload(Kinds, ConcurrentNames, SameMillisecond)
  \/ \E kind \in Kinds, param \in RowIds :
       DeleteOne(session, kind, param, FALSE)
  \/ \E kind \in Kinds : DeleteAll(session, kind, FALSE)
  \/ Deliver

SpecNames == InitLoggedIn /\ [][NextNames]_vars

\* The export of the photos next to photo uploads, deletions and files that
\* disappear from the upload directory; copying, zip and the transfer can
\* fail.  The admin is logged in and one guest uploads.
ExportKinds == {"photo"}
OneGuest == { <<"a">> }

NextExport ==
  \/ Upload(ExportKinds, OneGuest, Distinct)
  \/ \E e \in OneExport, kind \in ExportKinds :
       StartExport(e, session, kind, TRUE)
  \/ \E e \in OneExport : ZipDone(e, TRUE)
  \/ \E e \in OneExport : StreamDone(e, TRUE)
  \/ \E kind \in ExportKinds, param \in RowIds :
       DeleteOne(session, kind, param, FALSE)
  \/ RemoveFile
  \/ Deliver

SpecExport == InitLoggedIn /\ [][NextExport]_vars

\* Fetch and deletion with well-formed and malformed ids while one guest
\* uploads photos and videos; unlink can fail and files can disappear from
\* the upload directory.  The admin is logged in.
NextFaults ==
  \/ Upload(Kinds, OneGuest, Distinct)
  \/ \E kind \in Kinds, param \in IdParams :
       FetchOne(session, kind, param)
  \/ \E kind \in Kinds, param \in IdParams :
       DeleteOne(session, kind, param, TRUE)
  \/ \E kind \in Kinds : DeleteAll(session, kind, TRUE)
  \/ RemoveFile
  \/ Deliver

SpecFaults == InitLoggedIn /\ [][NextFaults]_vars

\* The admin routes as any client can request them, with the session of the
\* browser or without one, before and after login and logout, while one
\* guest uploads photos.
NextAdmin ==
  \/ Upload(ExportKinds, OneGuest, Distinct)
  \/ Login(CredentialInputs)
  \/ \E sess \in Clients : Logout(sess)
  \/ \E sess \in Clients, kind \in ExportKinds : List(sess, kind)
  \/ \E sess \in Clients, kind \in ExportKinds, param \in RowIds :
       FetchOne(sess, kind, param)
  \/ \E sess \in Clients, kind \in ExportKinds, param \in RowIds :
       DeleteOne(sess, kind, param, FALSE)
  \/ \E sess \in Clients, kind \in ExportKinds : DeleteAll(sess, kind, FALSE)
  \/ \E e \in OneExport, sess \in Clients, kind \in ExportKinds :
       StartExport(e, sess, kind, FALSE)
  \/ \E e \in OneExport : ZipDone(e, FALSE)
  \/ \E e \in OneExport : StreamDone(e, FALSE)
  \/ Deliver

SpecAdmin == Init /\ [][NextAdmin]_vars

\* Two exports of photos can be in progress together: a second download
\* request arrives while zip runs for the first or while its archive is
\* streamed, in the same millisecond as the first or later.  One guest
\* uploads photos, the admin is logged in, the file system does what it is
\* asked.
NextTwoExports ==
  \/ Upload(ExportKinds, OneGuest, Distinct)
  \/ Tick
  \/ \E e \in ExportSlots, kind \in ExportKinds :
       StartExport(e, session, kind, FALSE)
  \/ \E e \in ExportSlots : ZipDone(e, FALSE)
  \/ \E e \in ExportSlots : StreamDone(e, FALSE)
  \/ Deliver

SpecTwoExports == InitLoggedIn /\ [][NextTwoExports]_vars

\* The server started in any of the environments: video uploads of two
\* guests, a blank name among them, and delete-all of the videos.
InitConfigured == EmptyStore /\ session = [isAdmin |-> TRUE] /\ env \in Environments

NextConfigured ==
  \/ UploadVideosConfigured({<<" ">>, <<"a">>, <<"b">>})
  \/ DeleteAll(session, "video", FALSE)
  \/ Deliver

SpecConfigured == InitConfigured /\ [][NextConfigured]_vars

\* Requests that end in the error middleware, between the photo uploads of
\* one guest.
NextErrors ==
  \/ Upload(ExportKinds, OneGuest, Distinct)
  \/ Fail
  \/ Deliver

SpecErrors == Init /\ [][NextErrors]_vars

\* Exports of photos whose original names need sanitizing, with deletions
\* in between, so that the ids of the records are not their positions.
NextStaging ==
  \/ Upload(ExportKinds, OneGuest, UnsafeOriginals)
  \/ \E e \in OneExport, kind \in ExportKinds :
       StartExport(e, session, kind, FALSE)
  \/ \E e \in OneExport : ZipDone(e, FALSE)
  \/ \E e \in OneExport : StreamDone(e, FALSE)
  \/ \E kind \in ExportKinds, param \in RowIds :
       DeleteOne(session, kind, param, FALSE)
  \/ Deliver

SpecStaging == InitLoggedIn /\ [][NextStaging]_vars

(***************************************************************************)
(* Properties.                                                             *)
(***************************************************************************)
\* The upload just served got past the name and batch checks.
Validated ==
  lastOp.type = "upload" /\ lastOp.path \in {"full", "ok", "catch"}

\* Records of rows owned by uploader uid.
ownedBy(rows, uid) == { m \in rows : m.uploader_id = uid }

C2_WithinLimits ==
  \A kind \in Kinds :
    /\ Cardinality(media[kind]) <= GlobalLimit(kind)
    /\ \A u \in uploaders :
         Cardinality(ownedBy(media[kind], u.id)) <= PerPersonLimit(kind)

\* The photo table is full and one guest holds the per-person maximum.
C2_Witness ==
  /\ Cardinality(media["photo"]) = GlobalLimit("photo")
  /\ \E u \in uploaders :
       Cardinality(ownedBy(media["photo"], u.id)) = PerPersonLimit("photo")

\* C3 (as amended): two uploads of one kind can be in flight together, but
\* their handlers run one after the other, each as one synchronous function:
\* the counts an admission uses are the counts of the tables at the moment
\* of its own write, the records a concurrent request has written included,
\* and neither the per-person nor the global ceiling is exceeded.
C3_HandlersSerialized ==
  /\ \A kind \in Kinds :
       /\ Cardinality(media[kind]) <= GlobalLimit(kind)
       /\ \A u \in uploaders :
            Cardinality(ownedBy(media[kind], u.id)) <= PerPersonLimit(kind)
  /\ Validated =>
       /\ lastOp.totalCount = Cardinality(lastOp.before)
       /\ lastOp.uploaderCount
            = Cardinality(ownedBy(lastOp.before, lastOp.uploader_id))
       /\ Cardinality(lastOp.before) + Len(lastOp.accepted)
            <= GlobalLimit(lastOp.kind)
       /\ lastOp.uploaderCount + Len(lastOp.accepted)
            <= PerPersonLimit(lastOp.kind)

\* A request was in flight while another one filled the quota, and is
\* rejected in full by its own handler.
C3_Witness ==
  /\ lastOp.type = "upload"
  /\ lastOp.missed > 0
  /\ lastOp.path = "full"
  /\ lastOp.totalCount - lastOp.missed < GlobalLimit(lastOp.kind)

\* C3 as stated: a request handled concurrently with another one, in flight
\* while the other wrote its records, is admitted on the counts read before
\* that write, so that the records written meanwhile are not counted.
C3_StaleCounts ==
  (Validated /\ lastOp.missed > 0) =>
    lastOp.totalCount = Cardinality(lastOp.before) - lastOp.missed

GalleryFullText(kind) ==
  IF kind = "photo"
  THEN <<"Upload limit reached: this gallery is full.">>
  ELSE <<"Video upload limit reached: this gallery is full.">>

MaximumText(kind) ==
  <<"You have already uploaded your maximum of ", NumStr(PerPersonLimit(kind)),
    IF kind = "photo" THEN " photos." ELSE " videos.">>

\* C6: when allowedNow <= 0 the whole batch is rejected and nothing is
\* persisted; the reason is "gallery is full" whenever the global limit is
\* exhausted, also when the per-person limit is exhausted too, and otherwise
\* "maximum of <per-person limit>" of the kind.
C6_FullRejectionReason ==
  Validated =>
    LET kind == lastOp.kind
        c == Cardinality(ownedBy(lastOp.before, lastOp.uploader_id))
        t == Cardinality(lastOp.before)
    IN  (c >= PerPersonLimit(kind) \/ t >= GlobalLimit(kind)) =>
          /\ lastOp.path = "full"
          /\ lastOp.accepted = <<>>
          /\ media[kind] = lastOp.before
          /\ lastOp.res.flash = "error"
          /\ lastOp.res.text = IF t >= GlobalLimit(kind)
                               THEN GalleryFullText(kind)
                               ELSE MaximumText(kind)

\* Both limits are exhausted and the reason given is the full gallery.
C6_Witness ==
  /\ Validated
  /\ Cardinality(lastOp.before) >= GlobalLimit(lastOp.kind)
  /\ Cardinality(ownedBy(lastOp.before, lastOp.uploader_id))
       >= PerPersonLimit(lastOp.kind)
  /\ lastOp.res.text = GalleryFullText(lastOp.kind)

\* The counts an upload that passed validation found in the store.
CountBefore == Cardinality(ownedBy(lastOp.before, lastOp.uploader_id))

TotalBefore == Cardinality(lastOp.before)

NounText(kind) == IF kind = "photo" THEN "photo" ELSE "video"

\* C7: with a per-person limit of 2 and a global limit of 3 for the kind, and
\* no INSERT failing: a batch of 2 on an empty store is accepted whole with
\* "Uploaded 2 photos." (videos: "videos"); 1 more file of an uploader who
\* owns 2 is rejected with the "maximum of 2" message; 1 file of another
\* uploader when the total is 3 is rejected with the "gallery is full"
\* message; a batch of 2 when 1 slot remains has 1 file accepted and 1
\* skipped, and the message mentions both.
C7_LimitScenario ==
  (/\ Validated
   /\ lastOp.failAt = 0
   /\ PerPersonLimit(lastOp.kind) = 2
   /\ GlobalLimit(lastOp.kind) = 3) =>
    LET kind == lastOp.kind
        n == Len(lastOp.files)
        added == media[kind] \ lastOp.before
    IN  /\ (lastOp.before = {} /\ n = 2) =>
             /\ Cardinality(added) = 2
             /\ lastOp.rejected = <<>>
             /\ lastOp.res.flash = "message"
             /\ lastOp.res.text
                  = <<"Uploaded ", "2", " ", NounText(kind), "s", ".">>
        /\ (CountBefore = 2 /\ TotalBefore = 2 /\ n = 1) =>
             /\ added = {}
             /\ lastOp.res.flash = "error"
             /\ lastOp.res.text = MaximumText(kind)
        /\ (TotalBefore = 3 /\ CountBefore < 2 /\ n = 1) =>
             /\ added = {}
             /\ lastOp.res.flash = "error"
             /\ lastOp.res.text = GalleryFullText(kind)
        /\ (n = 2 /\ Min(2 - CountBefore, 3 - TotalBefore) = 1) =>
             /\ Cardinality(added) = 1
             /\ Len(lastOp.rejected) = 1
             /\ lastOp.res.flash = "message"
             /\ lastOp.res.text
                  = <<"Uploaded ", "1", " ", NounText(kind), "", ".",
                      " ", "1", " ", NounText(kind), " was",
                      " skipped due to upload limits.">>

\* After A's batch of 2 was accepted whole, a batch of 2 of another uploader
\* finds 1 slot: 1 file accepted, 1 skipped.
C7_Witness ==
  /\ Validated
  /\ lastOp.failAt = 0
  /\ Len(lastOp.files) = 2
  /\ TotalBefore = 2
  /\ CountBefore = 0
  /\ \E u \in lastOp.uploadersBefore :
       Cardinality(ownedBy(lastOp.before, u.id)) = 2
  /\ Len(lastOp.accepted) = 1
  /\ Len(lastOp.rejected) = 1

\* The other steps of the scenario of C7.
C7_StepAcceptedWhole ==
  Validated /\ lastOp.failAt = 0 /\ lastOp.before = {} /\ Len(lastOp.files) = 2

C7_StepMaximum ==
  Validated /\ CountBefore = 2 /\ TotalBefore = 2 /\ Len(lastOp.files) = 1

C7_StepGalleryFull ==
  /\ Validated /\ CountBefore < 2 /\ TotalBefore = 3 /\ Len(lastOp.files) = 1
  /\ \E u \in lastOp.uploadersBefore :
       u.id # lastOp.uploader_id /\ Cardinality(ownedBy(lastOp.before, u.id)) = 2

\* C8: no two uploader rows have the same normalized name, the normalized
\* name of a row is its display name trimmed and lower-cased, and an upload
\* is attributed to the row whose display name equals its own after trimming
\* and lower-casing: the quota is counted on that row's records and the new
\* records carry that row's id.
C8_OneUploaderPerName ==
  /\ \A u, v \in uploaders :
       /\ u.normalized_name = toLowerCase(trim(u.name))
       /\ (u.normalized_name = v.normalized_name \/ u.id = v.id) => u = v
  /\ Validated =>
       /\ \A u \in lastOp.uploadersBefore \cup uploaders :
            toLowerCase(trim(u.name)) = toLowerCase(trim(lastOp.name))
              => u.id = lastOp.uploader_id
       /\ \E u \in uploaders : u.id = lastOp.uploader_id
       /\ lastOp.uploaderCount = CountBefore
       /\ \A m \in media[lastOp.kind] \ lastOp.before :
            m.uploader_id = lastOp.uploader_id

\* "A " is attributed to the row that "a" created, whose quota is used up.
C8_Witness ==
  /\ Validated
  /\ lastOp.name = <<"A", " ">>
  /\ \E u \in lastOp.uploadersBefore :
       u.name = <<"a">> /\ u.id = lastOp.uploader_id
  /\ lastOp.uploaderCount = PerPersonLimit(lastOp.kind)
  /\ lastOp.path = "full"

\* Uploader uid owns a record of some kind.
ownsMedia(uid) ==
  \E kind \in Kinds : \E m \in media[kind] : m.uploader_id = uid

\* C9: after a delete-one request has removed a record, the uploader of that
\* record has no row left if it owns no photo and no video any more, and its
\* row is preserved if it still owns a photo or a video.
C9_DeleteOneCollectsUploader ==
  (lastOp.type = "deleteOne" /\ lastOp.found) =>
    /\ \A m \in media[lastOp.kind] : m.id # lastOp.id
    /\ \A u \in lastOp.owner :
         IF ownsMedia(u.id)
         THEN u \in uploaders
         ELSE \A v \in uploaders : v.id # u.id

\* The last record of an uploader was deleted and its row is gone.
C9_Witness ==
  /\ lastOp.type = "deleteOne"
  /\ lastOp.found
  /\ lastOp.owner # {}
  /\ \A u \in lastOp.owner : ~ ownsMedia(u.id) /\ u \notin uploaders

\* The last photo of an uploader who owns a video was deleted.
C9_WitnessPreserved ==
  /\ lastOp.type = "deleteOne"
  /\ lastOp.found
  /\ lastOp.kind = "photo"
  /\ \E u \in lastOp.owner :
       /\ ownedBy(media["photo"], u.id) = {}
       /\ ownedBy(media["video"], u.id) # {}
       /\ u \in uploaders

\* The display name is empty after trimming.
BlankName == \A i \in DOMAIN lastOp.name : lastOp.name[i] = " "

C10_WitnessFiles ==
  /\ lastOp.type = "upload"
  /\ BlankName
  /\ Len(lastOp.files) = 2
  /\ \A i \in DOMAIN lastOp.files : lastOp.files[i].filename \notin disk

\* All media records, of both kinds.
AllMedia == UNION { media[kind] : kind \in Kinds }

\* C11 (as stated): with uploads, delete-one and delete-all requests only,
\* and a file system that does what it is asked, the file of every media
\* record is on disk and every file on disk is referenced by a media record.
C11_StoreAndDiskInSync ==
  /\ \A m \in AllMedia : m.filename \in disk
  /\ \A name \in disk : \E m \in AllMedia : m.filename = name

\* C12 (as stated): no two media records, of either kind, have the same
\* stored filename.
C12_UniqueFilenames ==
  \A kind, other \in Kinds :
    \A m \in media[kind] : \A o \in media[other] :
      m.filename = o.filename => (kind = other /\ m.id = o.id)

\* C12, second half (as stated): a delete-one request that removes the file
\* of its record leaves the file of every other record on disk.
C12_DeleteKeepsOtherFiles ==
  (lastOp.type = "deleteOne" /\ lastOp.found) =>
    \A m \in AllMedia : m.filename \in disk

\* The synchronous part of an export handler has just run: the tables and
\* the upload directory are the ones it saw.
ExportStarted ==
  lastOp.type = "export" /\ lastOp.path \in {"none", "missing", "catch", "zip"}

\* An export request has ended after it had created its scratch directory.
ExportEnded ==
  /\ lastOp.type = "export"
  /\ lastOp.path \in {"missing", "catch", "zipFailed", "downloadFailed",
                      "streamed", "streamFailed"}

\* The records of the kind being exported whose file is on disk.
OnDisk == { m \in media[lastOp.kind] : m.filename \in disk }

\* C13: an export of a kind that has no records answers "No photos to
\* download." (videos: "videos") and creates neither a scratch directory
\* nor an archive.
C13_NothingToExport ==
  (ExportStarted /\ media[lastOp.kind] = {}) =>
    /\ lastOp.res.flash = "error"
    /\ lastOp.res.text = <<"No ", NounText(lastOp.kind), "s to download.">>
    /\ tmp = lastOp.tmpBefore
    /\ lastOp.tempDir \notin tmp
    /\ lastOp.archivePath \notin tmp
    /\ exports[lastOp.slot] = None

\* All records of the kind have been deleted, and an export is asked for.
C13_Witness ==
  /\ ExportStarted
  /\ media[lastOp.kind] = {}
  /\ nextId[lastOp.kind] > 1
  /\ lastOp.path = "none"

\* C14: if no copy throws, an export stages exactly the records of the kind
\* whose file is on disk, skipping the others; it is aborted with "Photo
\* files are missing on disk.", without an archive, if and only if there is
\* a record and no record's file is on disk.
C14_StagesPresentFiles ==
  ExportStarted =>
    /\ lastOp.path = "zip" =>
         /\ OnDisk # {}
         /\ exports[lastOp.slot].staged = { <<m.id>> : m \in OnDisk }
         /\ lastOp.tempDir \in tmp
    /\ lastOp.path = "catch" => OnDisk # {}
    /\ lastOp.path = "missing" <=> (media[lastOp.kind] # {} /\ OnDisk = {})
    /\ lastOp.path = "missing" =>
         /\ lastOp.res.flash = "error"
         /\ lastOp.res.text
              = <<IF lastOp.kind = "photo" THEN "Photo" ELSE "Video",
                  " files are missing on disk.">>
         /\ lastOp.archivePath \notin tmp
         /\ exports[lastOp.slot] = None

\* An export goes on to zip with one record staged and another skipped.
C14_Witness ==
  /\ ExportStarted
  /\ lastOp.path = "zip"
  /\ OnDisk # {}
  /\ media[lastOp.kind] \ OnDisk # {}

\* Every record's file is gone: the export is aborted.
C14_WitnessMissing ==
  ExportStarted /\ lastOp.path = "missing" /\ Cardinality(media[lastOp.kind]) = 2

C16_FailureReportsArchiveError ==
  (lastOp.type = "export" /\ lastOp.path \in {"catch", "zipFailed"}) =>
    /\ lastOp.res.status = 302
    /\ lastOp.res.flash = "error"
    /\ lastOp.res.text = <<"Could not create ZIP archive on this server.">>
    /\ exports[lastOp.slot] = None

\* zip has failed on a staged export.
C16_Witness ==
  /\ lastOp.type = "export"
  /\ lastOp.path = "zipFailed"
  /\ lastOp.staged # {}
  /\ lastOp.res.flash = "error"

\* A copy has thrown.
C16_WitnessCopy ==
  lastOp.type = "export" /\ lastOp.path = "catch" /\ lastOp.res.flash = "error"

\* The :id parameters that are numeric literals.
NumericLiterals ==
  {"0", "1", "2", "3", "4", "5", "6", "7", "8", "9", "10", "1.5"}

\* The records of a table whose id is written as param.
WithId(rows, param) == { m \in rows : NumStr(m.id) = param }

\* C17: a fetch of one photo or video has one of four outcomes: 400 with
\* "Invalid photo ID" when the id is no number; 404 with "Photo not found"
\* when no record has the id; 404 with "File missing on server" when the
\* record exists and its file is not on disk; the file of the record when
\* both exist (videos: "video", "Video"). The tables, the upload
\* directories and everything else are as the request found them.
C17_FetchOutcomes ==
  lastOp.type = "fetch" =>
    LET kind == lastOp.kind
        res == lastOp.res
        hits == WithId(media[kind], lastOp.param)
    IN  /\ snapshot = lastOp.before
        /\ IF lastOp.param \notin NumericLiterals
           THEN /\ res.status = 400
                /\ res.text = <<"Invalid ", NounText(kind), " ID">>
                /\ res.file = None
           ELSE IF hits = {}
           THEN /\ res.status = 404
                /\ res.text = <<IF kind = "photo" THEN "Photo" ELSE "Video",
                                " not found">>
                /\ res.file = None
           ELSE IF \E m \in hits : m.filename \notin disk
           THEN /\ res.status = 404
                /\ res.text = <<"File missing on server">>
                /\ res.file = None
           ELSE /\ res.status = 200
                /\ \E m \in hits : res.file = [filename |-> m.filename]

\* A record whose file has been removed from disk was fetched.
C17_Witness ==
  /\ lastOp.type = "fetch"
  /\ lastOp.res.text = <<"File missing on server">>
  /\ WithId(media[lastOp.kind], lastOp.param) # {}

\* A fraction was fetched while record 1 exists with its file.
C17_WitnessFraction ==
  /\ lastOp.type = "fetch"
  /\ lastOp.param = "1.5"
  /\ \E m \in media[lastOp.kind] : m.id = 1 /\ m.filename \in disk
  /\ lastOp.res.status = 404

\* A file was streamed.
C17_WitnessStreamed ==
  lastOp.type = "fetch" /\ lastOp.res.status = 200

\* C18: a delete-one request with an id that is no number answers "Invalid
\* photo ID.", one with an id no record has answers "Photo not found."
\* (videos: "video", "Video"), and both leave the tables and the disk as
\* they were; one with the id of a record deletes that record and answers
\* "Photo deleted.", whether or not its file could be unlinked.
C18_DeleteOneOutcomes ==
  lastOp.type = "deleteOne" =>
    LET kind == lastOp.kind
        res == lastOp.res
        Cap == IF kind = "photo" THEN "Photo" ELSE "Video"
        hits == WithId(lastOp.before.media[kind], lastOp.param)
    IN  IF lastOp.param \notin NumericLiterals
        THEN /\ res.flash = "error"
             /\ res.text = <<"Invalid ", NounText(kind), " ID.">>
             /\ snapshot = lastOp.before
        ELSE IF hits = {}
        THEN /\ res.flash = "error"
             /\ res.text = <<Cap, " not found.">>
             /\ snapshot = lastOp.before
        ELSE /\ res.flash = "message"
             /\ res.text = <<Cap, " deleted.">>
             /\ media[kind] = lastOp.before.media[kind] \ hits
             /\ media[IF kind = "photo" THEN "video" ELSE "photo"]
                  = lastOp.before.media[IF kind = "photo" THEN "video"
                                        ELSE "photo"]

\* A record was deleted and its file could not be unlinked: the record is
\* gone, the file is still there, and the answer is the success message.
C18_Witness ==
  /\ lastOp.type = "deleteOne"
  /\ lastOp.found
  /\ lastOp.stuck # {}
  /\ lastOp.row.filename \in disk
  /\ lastOp.row \notin media[lastOp.kind]
  /\ lastOp.res.flash = "message"

\* A malformed id was posted while records and files exist.
C18_WitnessInvalid ==
  /\ lastOp.type = "deleteOne"
  /\ lastOp.param = "abc"
  /\ media[lastOp.kind] # {}
  /\ lastOp.res.flash = "error"

\* An id that no record has was posted while records exist.
C18_WitnessNotFound ==
  /\ lastOp.type = "deleteOne"
  /\ lastOp.param \in NumericLiterals
  /\ ~ lastOp.found
  /\ media[lastOp.kind] # {}

\* C19: after a delete-all request for a kind no record of the kind is
\* left, also when files could not be unlinked; of the uploaders the request
\* found, those that own a record of the other kind are still there and the
\* others are gone; the records of the other kind are untouched and the
\* answer is "All photos deleted." (videos: "videos").
C19_DeleteAllOutcome ==
  lastOp.type = "deleteAll" =>
    LET kind == lastOp.kind
        other == IF kind = "photo" THEN "video" ELSE "photo"
    IN  /\ media[kind] = {}
        /\ uploaders \subseteq lastOp.uploadersBefore
        /\ \A u \in lastOp.uploadersBefore :
             u \in uploaders <=> \E m \in media[other] : m.uploader_id = u.id
        /\ lastOp.res.flash = "message"
        /\ lastOp.res.text = <<"All ", NounText(kind), "s deleted.">>

\* Delete-all ran with a file that could not be unlinked, and removed an
\* uploader.
C19_Witness ==
  /\ lastOp.type = "deleteAll"
  /\ lastOp.stuck # {}
  /\ lastOp.stuck \subseteq disk
  /\ media[lastOp.kind] = {}
  /\ lastOp.uploadersBefore \ uploaders # {}

\* Delete-all ran and an uploader that owns a record of the other kind is
\* still there.
C19_WitnessPreserved ==
  /\ lastOp.type = "deleteAll"
  /\ lastOp.uploadersBefore # {}
  /\ uploaders = lastOp.uploadersBefore

\* The responses of the handlers behind requireAdmin, and of logout.
GatedRoutes == {"list", "fetch", "deleteOne", "deleteAll", "export"}
AdminRoutes == GatedRoutes \cup {"logout"}

\* The session of an administrator, and the redirect to the login page.
AdminSession == [isAdmin |-> TRUE]
ToLogin ==
  [status |-> 302, location |-> <<"/admin/login">>, flash |-> "none",
   text |-> <<>>]

\* C20 (as stated): no handler of an /admin/* route other than login (list,
\* fetch, delete-one, delete-all, download, logout) runs for a request whose
\* session does not have isAdmin === true; such a request changes nothing
\* and is redirected to /admin/login.
C20_AllRoutesGated ==
  /\ lastOp.type \in AdminRoutes => lastOp.sess = AdminSession
  /\ lastOp.type = "denied" =>
       /\ lastOp.res = ToLogin
       /\ snapshot = lastOp.before

\* C20 (amended): the handlers of list, fetch, delete-one, delete-all and
\* download run only for a request whose session has isAdmin === true; any
\* other request to these routes is redirected to /admin/login and changes
\* nothing. Logout is not gated: for any request it destroys the session of
\* the request, touches nothing else and redirects to /admin/login.
C20_GatedRoutes ==
  /\ lastOp.type \in GatedRoutes => lastOp.sess = AdminSession
  /\ lastOp.type = "denied" =>
       /\ lastOp.sess # AdminSession
       /\ lastOp.route \in {"list", "fetch", "deleteOne", "deleteAll",
                           "download"}
       /\ lastOp.res = ToLogin
       /\ snapshot = lastOp.before
  /\ lastOp.type = "logout" =>
       /\ lastOp.res = ToLogin
       /\ session = IF lastOp.sess = lastOp.before.session
                    THEN None ELSE lastOp.before.session
       /\ snapshot = [lastOp.before EXCEPT !.session = session]

\* A request without an admin session asked for delete-all while photos
\* were stored, after an administrator had logged out.
C20_Witness ==
  /\ lastOp.type = "denied"
  /\ lastOp.route = "deleteAll"
  /\ lastOp.sess = None
  /\ session = None
  /\ media["photo"] # {}

\* Logout ran for a request without an admin session.
C20_WitnessLogout ==
  lastOp.type = "logout" /\ lastOp.sess = None

\* Every gated route has turned a request away.
C20_WitnessList == lastOp.type = "denied" /\ lastOp.route = "list"
C20_WitnessFetch == lastOp.type = "denied" /\ lastOp.route = "fetch"
C20_WitnessDeleteOne == lastOp.type = "denied" /\ lastOp.route = "deleteOne"
C20_WitnessDownload == lastOp.type = "denied" /\ lastOp.route = "download"

\* The strings that are word with blanks around it.
Padded(word) ==
  { pre \o word \o post : pre \in {<<>>, <<" ">>}, post \in {<<>>, <<" ">>} }

\* The login just served carried the configured credentials.
RightCredentials ==
  /\ lastOp.cred.username \in Padded(<<"admin">>)
  /\ lastOp.cred.password \in Padded(<<"change-this-password">>)

\* The first step of a handler behind requireAdmin (an export goes on after
\* it in later steps).
GatedHandlerStarts ==
  /\ lastOp'.type \in GatedRoutes
  /\ lastOp'.type = "export" => lastOp'.path \in {"none", "missing", "catch", "zip"}

\* C21: a login whose username and password, blanks around them removed,
\* equal the configured credentials makes the session admin and redirects
\* to /admin/photos; any other login leaves the session as it was and
\* redirects to the login page with "Invalid username or password.".
C21_LoginOutcome ==
  lastOp.type = "login" =>
    /\ snapshot = [lastOp.before EXCEPT !.session = session]
    /\ IF RightCredentials
       THEN /\ session = AdminSession
            /\ lastOp.res.location = <<"/admin/", "photo", "s">>
            /\ lastOp.res.flash = "none"
       ELSE /\ session = lastOp.before.session
            /\ lastOp.res.location = <<"/admin/login">>
            /\ lastOp.res.flash = "error"
            /\ lastOp.res.text = <<"Invalid username or password.">>

\* C21: the session becomes admin only in a login with the configured
\* credentials; a logout of the session destroys it; while there is no
\* admin session no handler behind requireAdmin starts.
C21_SessionStep ==
  /\ (session' = AdminSession /\ session # AdminSession) =>
       /\ lastOp'.type = "login"
       /\ lastOp'.cred.username \in Padded(<<"admin">>)
       /\ lastOp'.cred.password \in Padded(<<"change-this-password">>)
  /\ (lastOp = Idle /\ lastOp'.type = "logout" /\ lastOp'.sess = session) =>
       session' = None
  /\ (lastOp = Idle /\ session # AdminSession) => ~ GatedHandlerStarts

\* C21: a session becomes admin only through a login with the configured
\* credentials (blanks around them ignored); a failed login leaves the
\* session as it was and answers "Invalid username or password."; a logout
\* destroys the session, and from then on the gated admin routes redirect
\* to /admin/login until the next successful login.
C21_AdminOnlyByLogin == [] C21_LoginOutcome /\ [][C21_SessionStep]_vars

\* A login with blanks around the right credentials made a session admin.
C21_Witness ==
  /\ lastOp.type = "login"
  /\ lastOp.cred.username = <<" ", "admin">>
  /\ lastOp.before.session = None
  /\ session = AdminSession

\* A failed login on a store with photos, the session not admin.
C21_WitnessFailed ==
  /\ lastOp.type = "login"
  /\ ~ RightCredentials
  /\ session = None
  /\ media["photo"] # {}

\* An administrator has logged out.
C21_WitnessLogout ==
  /\ lastOp.type = "logout"
  /\ lastOp.before.session = AdminSession
  /\ session = None

\* The sentence about n accepted files, and the one about k skipped files.
UploadedSentence(kind, n) ==
  IF n = 1 THEN <<"Uploaded ", "1", " ", NounText(kind), "", ".">>
  ELSE <<"Uploaded ", NumStr(n), " ", NounText(kind), "s", ".">>
SkippedSentence(kind, k) ==
  IF k = 1
  THEN <<" ", "1", " ", NounText(kind), " was",
         " skipped due to upload limits.">>
  ELSE <<" ", NumStr(k), " ", NounText(kind), "s were",
         " skipped due to upload limits.">>

C22_WitnessPlural ==
  /\ lastOp.type = "upload"
  /\ lastOp.path = "ok"
  /\ Len(lastOp.accepted) = 2
  /\ lastOp.rejected = <<>>

\* The gate at which the upload just served must have ended, from the
\* request and the tables it found: the name, the batch, the admission (the
\* uploader resolved by then), the INSERTs, or none.
ExpectedGate ==
  IF BlankName THEN "name"
  ELSE IF Len(lastOp.files) = 0 THEN "empty"
  ELSE IF \/ TotalBefore >= GlobalLimit(lastOp.kind)
          \/ CountBefore >= PerPersonLimit(lastOp.kind) THEN "full"
  ELSE IF lastOp.failAt > 0 THEN "catch"
  ELSE "ok"

\* C25: an upload passes name validation, batch validation, uploader
\* resolution, admission and persistence in this order and answers once, at
\* the first gate that fails or after the last: a request that fails a
\* validation has resolved or created no uploader and written no record, and
\* a request that admission rejects in full has its uploader resolved and
\* has written no record.
C25_GateOrder ==
  lastOp.type = "upload" =>
    /\ lastOp.path = ExpectedGate
    /\ lastOp.res.flash \in {"error", "message"}
    /\ lastOp.path \in {"name", "empty"} =>
         /\ lastOp.uploader_id = 0
         /\ uploaders = lastOp.uploadersBefore
         /\ media[lastOp.kind] = lastOp.before
    /\ lastOp.path \in {"full", "catch", "ok"} =>
         /\ \E u \in uploaders : u.id = lastOp.uploader_id
         /\ lastOp.uploadersBefore \subseteq uploaders
    /\ lastOp.path \in {"full", "catch"} => media[lastOp.kind] = lastOp.before
    /\ lastOp.path = "ok" => media[lastOp.kind] # lastOp.before

\* A request with a blank name and no file ended at the name gate.
C25_Witness ==
  /\ lastOp.type = "upload"
  /\ BlankName
  /\ lastOp.files = <<>>
  /\ lastOp.path = "name"

\* A request with a blank name met a full table: it ended at the name gate
\* and no uploader was created.
C25_WitnessNameBeforeAdmission ==
  /\ lastOp.type = "upload"
  /\ BlankName
  /\ lastOp.files # <<>>
  /\ Cardinality(lastOp.before) = GlobalLimit(lastOp.kind)
  /\ lastOp.path = "name"

\* A request was rejected in full by admission, its uploader resolved.
C25_WitnessFull ==
  /\ lastOp.type = "upload"
  /\ lastOp.path = "full"
  /\ \E u \in uploaders : u.id = lastOp.uploader_id

\* The uploaders that own no photo and no video.
OrphanUploaders ==
  { u \in uploaders : \A m \in AllMedia : m.uploader_id # u.id }

\* C27 (as stated): between requests every uploader row owns at least one
\* photo or video; an upload rejected in full by the limits, or one whose
\* INSERT fails, leaves no uploader without records.
C27_NoOrphanUploader ==
  lastOp = Idle => OrphanUploaders = {}

\* C28: the uploader_id of every photo and of every video is the id of a row
\* of uploaders: the cleanup of orphan uploaders after delete-one and
\* delete-all removes no uploader that a record of either kind references.
C28_UploaderExists ==
  \A m \in AllMedia : \E u \in uploaders : u.id = m.uploader_id

\* All videos were deleted; one uploader went with them and another, who
\* owns photos only, is still there.
C28_Witness ==
  /\ lastOp.type = "deleteAll"
  /\ lastOp.kind = "video"
  /\ lastOp.uploadersBefore \ uploaders # {}
  /\ \E u \in uploaders : \E m \in media["photo"] : m.uploader_id = u.id

\* A request for one kind is served: an upload, a delete-one or a delete-all.
ServedFor(kind) ==
  /\ lastOp = Idle
  /\ lastOp'.type \in {"upload", "deleteOne", "deleteAll"}
  /\ lastOp'.kind = kind

\* The records, the sequence and the files of a kind are left alone.
KindUntouched(kind) ==
  /\ media'[kind] = media[kind]
  /\ nextId'[kind] = nextId[kind]
  /\ \A m \in media[kind] : m.filename \in disk => m.filename \in disk'

\* The admission of the upload served used the counts of its own kind.
OwnCounts ==
  (lastOp'.type = "upload" /\ lastOp'.path \in {"full", "ok", "catch"}) =>
    /\ lastOp'.totalCount = Cardinality(media[lastOp'.kind])
    /\ lastOp'.uploaderCount
         = Cardinality(ownedBy(media[lastOp'.kind], lastOp'.uploader_id))

C29_Step ==
  /\ ServedFor("photo") => KindUntouched("video") /\ OwnCounts
  /\ ServedFor("video") => KindUntouched("photo") /\ OwnCounts

\* C29 (as stated): a photo upload, photo delete-one or photo delete-all
\* adds, removes or changes no video record and no file of a video, and the
\* admission of photos counts photos only; the same with the kinds
\* exchanged.
C29_KindsIndependent == [][C29_Step]_vars

\* The exports in progress.
InProgress == { e \in ExportSlots : exports[e] # None }

\* C30 (as stated): two exports in progress at the same time have different
\* scratch directories and different archive paths, and the archive an
\* export is streaming is there until its own clean-up removes it.
C30_ExportsDisjoint ==
  /\ \A e1 \in InProgress : \A e2 \in InProgress \ {e1} :
       /\ exports[e1].tempDir # exports[e2].tempDir
       /\ exports[e1].archivePath # exports[e2].archivePath
  /\ \A e \in InProgress :
       exports[e].pc = "stream" => exports[e].archivePath \in tmp

\* The strings that are numbers.
NumericSettings == {"1", "2", "3"}

\* The limit of key is its fallback, a number.
IsFallback(key, limit) ==
  /\ ~ limit.isNaN
  /\ limit.value = (CASE key = "MAX_VIDEOS_PER_PERSON" -> 10
                      [] key = "MAX_TOTAL_VIDEOS" -> 400
                      [] OTHER -> 1200)

\* C24 (as stated): each of the video limits and the maximum video size is
\* its documented default (10, 400, 1200) when its setting is absent or is
\* no number, and every limit is a number that is not negative, so that the
\* admission of an upload is a number too.
C24_ConfigFailsSoft ==
  /\ \A key \in EnvKeys :
       /\ (~ env[key].set \/ env[key].value \notin NumericSettings) =>
            IsFallback(key, configured(env, key))
       /\ ~ configured(env, key).isNaN
       /\ configured(env, key).value >= 0
  /\ (lastOp.type = "upload" /\ lastOp.path \in {"full", "ok"}) =>
       ~ lastOp.allowedNow.isNaN

\* Under a limit that is NaN every file of a batch was refused and the
\* answer is the success message, "Uploaded 0 videos." in it.
C24_RefusedAsSuccess ==
  /\ lastOp.type = "upload"
  /\ lastOp.path = "ok"
  /\ lastOp.allowedNow.isNaN
  /\ lastOp.accepted = <<>>
  /\ media["video"] = lastOp.before
  /\ lastOp.res.flash = "message"

\* The request just served ended in the error middleware with an error that
\* is not one of multer's.
UnrecognizedError ==
  /\ lastOp.type = "error"
  /\ lastOp.err # None
  /\ lastOp.err.class # "MulterError"

\* C23 (as stated): an error in the error middleware that is not one of
\* multer's is answered with status 500 and a generic text, and the message
\* of the error is not in the response.
C23_GenericAnswer ==
  UnrecognizedError =>
    /\ lastOp.res.status = 500
    /\ lastOp.res.text \in { <<"Unexpected server error">>,
                             <<"Unexpected error occurred.">> }

\* C23 (amended): an error in the error middleware that is not one of
\* multer's is answered with a redirect to the upload page, tab videos for
\* /upload/videos and photos otherwise, whose error text is the message of
\* the error, or "Unexpected error occurred." when the error has no message;
\* status 500 with "Unexpected server error" is the answer only when the
\* middleware is called without an error.  Nothing else changes.
C23_ErrorAnswer ==
  lastOp.type = "error" =>
    /\ snapshot = lastOp.before
    /\ UnrecognizedError =>
         /\ lastOp.res.status = 302
         /\ lastOp.res.flash = "error"
         /\ lastOp.res.tab = (IF lastOp.path = "/upload/videos" THEN "videos"
                              ELSE "photos")
         /\ lastOp.res.text = (IF lastOp.err.message = <<>>
                               THEN <<"Unexpected error occurred.">>
                               ELSE lastOp.err.message)
    /\ lastOp.res.status = 500 <=> lastOp.err = None
    /\ lastOp.err = None => lastOp.res.text = <<"Unexpected server error">>

\* An error of the database got to the middleware from an admin route and
\* its message went out in the redirect.
C23_Witness ==
  /\ UnrecognizedError
  /\ lastOp.path = "/admin/photos"
  /\ lastOp.err.message = <<"SQLITE_CANTOPEN: unable to open database file">>
  /\ lastOp.res.text = lastOp.err.message

\* The middleware was called without an error.
C23_WitnessNoError ==
  lastOp.type = "error" /\ lastOp.err = None /\ lastOp.res.status = 500

\* The copies of an export that went on to zip, in the order they were made.
Copies == lastOp.copied

\* The record a copy was made of.
CopiedRow(c) == CHOOSE m \in media[lastOp.kind] : m.id = c.id

\* The characters sanitizeArchiveFilename replaces.
PathUnsafe == {"/", "\\", "?", "%", "*", ":", "|", "\"", "<", ">"}

\* A name with no unsafe character, no run of blanks and no blank at either
\* end.
IsSanitized(s) ==
  /\ \A i \in DOMAIN s : s[i] \notin PathUnsafe
  /\ \A i \in DOMAIN s : i > 1 /\ s[i] = " " => s[i - 1] # " "
  /\ s # <<>> => s[1] # " " /\ s[Len(s)] # " "

\* The four digits and the dash a staged name starts with.
NumberOf(name) == SubSeq(name, 1, 5)

\* What follows them.
RestOf(name) == SubSeq(name, 6, Len(name))

\* The name a record is exported under when it has no original name.
NameOr(m) ==
  IF m.original_name # <<>> THEN m.original_name
  ELSE <<Noun(lastOp.kind), "-", NumStr(m.id)>>

\* The copies are made newest first, and no two get the same name.
CopiesDistinct ==
  /\ \A i, j \in DOMAIN Copies : i < j => Copies[i].id > Copies[j].id
  /\ \A i, j \in DOMAIN Copies : i # j => Copies[i].name # Copies[j].name

\* C26 (as stated): each staged file's name is a zero-padded sequence number
\* following the query order, newest first (the k-th file of the query that
\* is staged carries number k), plus the sanitized original filename, and
\* no two staged files of one export get the same name.
C26_SequenceNumbers ==
  ExportStarted /\ lastOp.path = "zip" =>
    /\ \A k \in DOMAIN Copies :
         /\ Len(Copies[k].name) >= 5
         /\ NumberOf(Copies[k].name) = padStart4(k) \o <<"-">>
         /\ RestOf(Copies[k].name)
              = sanitizeArchiveFilename(NameOr(CopiedRow(Copies[k])))
    /\ CopiesDistinct

\* C26 (amended): each staged file's name is its record's id, zero-padded to
\* four digits, a dash, and the sanitized original filename (of `photo-<id>`
\* when the record has no original name), which has no path-unsafe
\* character, no run of blanks and no blank at either end; the files are
\* staged in the query order, newest first, and no two staged files of one
\* export get the same name.
C26_StagedNames ==
  ExportStarted /\ lastOp.path = "zip" =>
    /\ \A k \in DOMAIN Copies :
         /\ Len(Copies[k].name) >= 5
         /\ NumberOf(Copies[k].name)
              = padStart4(CopiedRow(Copies[k]).id) \o <<"-">>
         /\ RestOf(Copies[k].name)
              = sanitizeArchiveFilename(NameOr(CopiedRow(Copies[k])))
         /\ IsSanitized(RestOf(Copies[k].name))
    /\ CopiesDistinct

\* Two records whose original names differ and sanitize to the same text are
\* staged in one export.
C26_Witness ==
  /\ ExportStarted
  /\ lastOp.path = "zip"
  /\ \E i, j \in DOMAIN Copies :
       /\ i # j
       /\ CopiedRow(Copies[i]).original_name
            # CopiedRow(Copies[j]).original_name
       /\ RestOf(Copies[i].name) = RestOf(Copies[j].name)

\* A record without an original name is staged under the fallback name.
C26_WitnessFallback ==
  /\ ExportStarted
  /\ lastOp.path = "zip"
  /\ \E k \in DOMAIN Copies :
       /\ CopiedRow(Copies[k]).original_name = <<>>
       /\ Copies[k].name = <<"0", "0", "0", "2", "-", "photo", "-", "2">>

\* The only record staged is not record 1.
C26_WitnessAfterDelete ==
  /\ ExportStarted
  /\ lastOp.path = "zip"
  /\ Len(Copies) = 1
  /\ Copies[1].id = 3

====
